---- MODULE Spec2Model ----
(***************************************************************************)
(* sv2mid: conversion of a Sonic Visualiser project into a single-track    *)
(* MIDI file (src/src/main.rs, src/src/sv_model.rs, src/src/utils.rs,      *)
(* src/src/midly_ext.rs).                                                  *)
(*                                                                         *)
(* main() is a one-shot batch pipeline.  It is modelled as a state machine *)
(* whose position `pc` walks through the blocks of main(): channel         *)
(* assignment, track initialisation, projection of the notes, instants and *)
(* text layers, sorting, the polyphony lint, the overlap lint, delta       *)
(* encoding and saving.  A panic (expect / assert!) moves to "aborted".    *)
(*                                                                         *)
(* Numbers.  f64 quantities are modelled exactly: the tempo is a positive  *)
(* integer number of beats per minute, pan is an integer number of         *)
(* hundredths.  The inputs are chosen so that every f64 operation of the   *)
(* source is exact on them; usize values stay far below 2^64.              *)
(***************************************************************************)
EXTENDS Integers, Sequences, FiniteSets, TLC

VARIABLES
    args,                   \* Args: midi_bpm, midi_ticks_per_beat, trim_leading_silence
    sv_document,            \* SvDocument.data: layers, models, datasets, play_parameters
    pc,                     \* position in main()
    panic,                  \* message of the panic that aborted the run, "" if none
    sv_notes_layers,        \* Vec<(u4, &SvLayer)>: <<channel, layer>> pairs
    midi_track,             \* Track: sequence of TrackEvent [delta, kind]
    absolute_track_events,  \* Vec<AbsoluteTrackEvent>
    layer_index,            \* loop position over layers (header and projection loops)
    event_index,            \* loop position over absolute_track_events (lints, encoder)
    current_polyphony,      \* polyphony lint: running count
    already_warned,         \* polyphony lint: warning latch
    current_note_counts,    \* overlap lint: set of <<channel, key, count>> entries
    stderr,                 \* diagnostics printed so far, in order
    output                  \* the saved file: <<>> before save, <<track>> after

vars == << args, sv_document, pc, panic, sv_notes_layers, midi_track,
           absolute_track_events, layer_index, event_index, current_polyphony,
           already_warned, current_note_counts, stderr, output >>

-----------------------------------------------------------------------------
(* Option<T> *)

None == << >>

Some(x) == << x >>

IsSome(o) == Len(o) = 1

Unwrap(o) == o[1]

-----------------------------------------------------------------------------
(* Program constants, main.rs *)

MIDI_DRUM_CHANNEL == 9

MIDI_VELOCITY_DEFAULT == 64

MIDI_VELOCITY_NONE == 0

MIDI_CONTROLLER_VOLUME == 7

MIDI_CONTROLLER_PAN == 10

MIDI_MAX_POLYPHONY == 24

\* Mutant: all sixteen channel numbers.
ALL_CHANNELS == << 0, 1, 2, 3, 4, 5, 6, 7, 8, 9, 10, 11, 12, 13, 14, 15 >>

\* The channel numbers zipped with the notes layers.
NOTES_CHANNELS == << 0, 1, 2, 3, 4, 5, 6, 7, 8, 10, 11, 12, 13, 14, 15 >>

-----------------------------------------------------------------------------
(* Integer conversions.  midly's restricted integers (u4, u7, u15, u24,    *)
(* u28) are built with From, which keeps the low bits; `as u8` / `as u32`  *)
(* on an integer keeps the low bits, on a float it truncates toward zero   *)
(* and saturates.                                                          *)

Pow2(n) == 2 ^ n

\* u7::from(x as u8) for an integer x >= 0
U7FromU8(x) == (x % 256) % 128

\* u28::from(x as u32) for a usize x
U28FromUsize(x) == x % Pow2(28)

\* u24::from(q as u32) for a non-negative value with integer part q < 2^32
U24FromU32(q) == q % Pow2(24)

\* (num / den) as u8 for a float num/den, den > 0: truncation toward zero,
\* saturated to 0..255.
FloatAsU8(num, den) ==
    IF num <= 0 THEN 0
    ELSE IF num \div den > 255 THEN 255
    ELSE num \div den

-----------------------------------------------------------------------------
(* utils.rs: Seconds *)

\* Seconds::new(frame, sample_rate): the value frame / sample_rate, kept as
\* the pair <<frame, sample_rate>>.  The caller checks sample_rate > 0.
SecondsNew(frame, sample_rate) == << frame, sample_rate >>

RECURSIVE Gcd(_, _)
Gcd(a, b) == IF b = 0 THEN a ELSE Gcd(b, a % b)

\* Seconds::as_midi_ticks: (s * (bpm / 60.0) * tpb) as usize, i.e. the floor
\* of frame * (bpm * tpb) / (60 * sample_rate).  The fraction N / D =
\* (bpm * tpb) / (60 * sample_rate) is reduced and the quotient is taken in
\* two steps, floor(f * N / D) = (f div D) * N + ((f mod D) * N) div D, to
\* keep the intermediate products small.
AsMidiTicks(seconds, midi_bpm, midi_ticks_per_beat) ==
    LET g == Gcd(midi_bpm * midi_ticks_per_beat, 60 * seconds[2])
        N == (midi_bpm * midi_ticks_per_beat) \div g
        D == (60 * seconds[2]) \div g
    IN  (seconds[1] \div D) * N + ((seconds[1] % D) * N) \div D

-----------------------------------------------------------------------------
(* sv_model.rs: lookups *)

\* iter().find(..): the first of the elements of s at the positions `hits`,
\* as an Option.
FindFirst(s, hits) ==
    IF hits = {} THEN None
    ELSE Some(s[CHOOSE i \in hits : \A j \in hits : i <= j])

\* get_layers_by_type: the layers of the given type, in document order.
get_layers_by_type(doc, type) ==
    LET HasType(layer) == layer.type = type
    IN  SelectSeq(doc.layers, HasType)

get_model_by_id(doc, id) ==
    FindFirst(doc.models, { i \in DOMAIN doc.models : doc.models[i].id = id })

get_dataset_by_id(doc, id) ==
    FindFirst(doc.datasets, { i \in DOMAIN doc.datasets : doc.datasets[i].id = id })

get_play_parameters_by_id(doc, id) ==
    FindFirst(doc.play_parameters,
              { i \in DOMAIN doc.play_parameters : doc.play_parameters[i].model = id })

midi_program(play_parameters) ==
    CASE play_parameters.clip_id = "piano" -> 0
      [] play_parameters.clip_id = "elecpiano" -> 5
      [] play_parameters.clip_id = "organ" -> 17
      [] play_parameters.clip_id = "beep" -> 80
      [] OTHER -> 0

midi_drum_note(play_parameters) ==
    CASE play_parameters.clip_id = "bass" -> 35
      [] play_parameters.clip_id = "bounce" -> 27
      [] play_parameters.clip_id = "clap" -> 39
      [] play_parameters.clip_id = "click" -> 33
      [] play_parameters.clip_id = "cowbell" -> 56
      [] play_parameters.clip_id = "hihat" -> 42
      [] play_parameters.clip_id = "kick" -> 41
      [] play_parameters.clip_id = "silent" -> 0
      [] play_parameters.clip_id = "snare" -> 38
      [] play_parameters.clip_id = "stick" -> 30
      [] play_parameters.clip_id = "strike" -> 49
      [] play_parameters.clip_id = "tap" -> 32
      [] OTHER -> 0

midi_name(layer) ==
    IF IsSome(layer.presentation_name) THEN Unwrap(layer.presentation_name)
    ELSE layer.name

\* str::is_ascii on the names and labels the model uses.
NonAsciiStrings == { "Fl<u+00FB>te", "caf<u+00E9>" }

is_ascii(s) == s \notin NonAsciiStrings

-----------------------------------------------------------------------------
(* Documents.  A document is SvData: the four record lists of sv_model.rs. *)
(* BuildDocument makes one from a list of layer descriptions; layer i      *)
(* refers to model i, model i to dataset i, play parameters i to model i.  *)
(* A description's `fault` removes one of the records a lookup needs.      *)

NotePoint(frame, duration, value) ==
    [ frame |-> frame, value |-> Some(value), duration |-> Some(duration),
      label |-> "" ]

BarePoint(frame, label) ==
    [ frame |-> frame, value |-> None, duration |-> None, label |-> label ]

LayerDesc(type, name, sample_rate, clip_id, pan, mute, points, fault) ==
    [ type |-> type, name |-> name, sample_rate |-> sample_rate,
      clip_id |-> clip_id, pan |-> pan, mute |-> mute, points |-> points,
      fault |-> fault ]

BuildDocument(descs) ==
    LET ids == [ i \in DOMAIN descs |-> i ]
        HasModel(i) == descs[i].fault # "no_model"
        HasDataset(i) == descs[i].fault # "no_dataset"
        HasPlayParameters(i) == descs[i].fault # "no_play_parameters"
        Layer(i) ==
            [ id |-> 100 + i, type |-> descs[i].type, name |-> descs[i].name,
              model |-> i,
              presentation_name |->
                  IF descs[i].type = "text" THEN Some("Lyrics") ELSE None ]
        Model(i) ==
            [ id |-> i, sample_rate |-> descs[i].sample_rate,
              dataset |-> IF descs[i].fault = "no_dataset_id" THEN None
                          ELSE Some(200 + i) ]
        Dataset(i) == [ id |-> 200 + i, points |-> descs[i].points ]
        PlayParameters(i) ==
            [ model |-> i, mute |-> descs[i].mute, pan |-> descs[i].pan,
              clip_id |-> descs[i].clip_id ]
        MapSeq(s, F(_)) == [ k \in DOMAIN s |-> F(s[k]) ]
    IN  [ layers |-> MapSeq(ids, Layer),
          models |-> MapSeq(SelectSeq(ids, HasModel), Model),
          datasets |-> MapSeq(SelectSeq(ids, HasDataset), Dataset),
          play_parameters |->
              MapSeq(SelectSeq(ids, HasPlayParameters), PlayParameters) ]

MakeArgs(midi_bpm, midi_ticks_per_beat, trim_leading_silence) ==
    [ midi_bpm |-> midi_bpm, midi_ticks_per_beat |-> midi_ticks_per_beat,
      trim_leading_silence |-> trim_leading_silence ]

-----------------------------------------------------------------------------
(* Events.  TrackEventKind values are records tagged by `type`.            *)

MetaTempo(tempo) == [ type |-> "Tempo", tempo |-> tempo ]

MetaMidiChannel(channel) == [ type |-> "MidiChannel", channel |-> channel ]

MetaInstrumentName(name) == [ type |-> "InstrumentName", name |-> name ]

MetaText(text) == [ type |-> "Text", text |-> text ]

MetaEndOfTrack == [ type |-> "EndOfTrack" ]

ProgramChange(channel, program) ==
    [ type |-> "ProgramChange", channel |-> channel, program |-> program ]

Controller(channel, controller, value) ==
    [ type |-> "Controller", channel |-> channel, controller |-> controller,
      value |-> value ]

NoteOn(channel, key, vel) ==
    [ type |-> "NoteOn", channel |-> channel, key |-> key, vel |-> vel ]

NoteOff(channel, key, vel) ==
    [ type |-> "NoteOff", channel |-> channel, key |-> key, vel |-> vel ]

\* midly_ext.rs
is_note_on(kind) == kind.type = "NoteOn"

is_note_off(kind) == kind.type = "NoteOff"

TrackEvent(delta, kind) == [ delta |-> delta, kind |-> kind ]

AbsoluteTrackEvent(ticks, ticks_event_start, seconds, kind) ==
    [ ticks |-> ticks, ticks_event_start |-> ticks_event_start,
      seconds |-> seconds, kind |-> kind ]

\* One warning printed on stderr (an eprintln!("warning: ...") together with
\* the "note: ..." line that follows it, if any).
Warning(kind, layer, seconds) ==
    [ kind |-> kind, layer |-> layer, seconds |-> seconds ]

-----------------------------------------------------------------------------
(* Track initialisation, main.rs 76-166 *)

\* Timing::Metrical(u15::from(args.midi_ticks_per_beat as u16))
HeaderTiming(midi_ticks_per_beat) == (midi_ticks_per_beat % Pow2(16)) % Pow2(15)

\* u24::from((60_000_000.0 / args.midi_bpm) as u32); midi_bpm is a whole
\* number here, for which the quotient is below 2^32 and `as u32` is its
\* integer part.
TempoValue(midi_bpm) == U24FromU32(60000000 \div midi_bpm)

\* u7::from((64.0 + (play_parameters.pan * 63.5)) as u8), pan in hundredths:
\* 64 + (pan / 100) * 63.5 = (64000 + 635 * pan) / 1000
PanValue(pan) == FloatAsU8(64000 + 635 * pan, 1000) % 128

\* The zip of the channel numbers with the notes layers.
ZipChannels(channels, layers) ==
    LET n == IF Len(channels) < Len(layers) THEN Len(channels) ELSE Len(layers)
    IN  [ i \in 1..n |-> << channels[i] % 16, layers[i] >> ]

\* The events pushed for one notes layer up to the play-parameters lookup.
LayerNameEvents(channel, notes_layer) ==
    << TrackEvent(0, MetaMidiChannel(channel)),
       TrackEvent(0, MetaInstrumentName(midi_name(notes_layer))) >>

\* The events pushed for one notes layer after the play-parameters lookup.
LayerSetupEvents(channel, play_parameters) ==
    << TrackEvent(0, ProgramChange(channel, midi_program(play_parameters))) >>
    \o (IF play_parameters.mute
        THEN << TrackEvent(0, Controller(channel, MIDI_CONTROLLER_VOLUME, 0)) >>
        ELSE << >>)
    \o << TrackEvent(0, Controller(channel, MIDI_CONTROLLER_PAN,
                                   PanValue(play_parameters.pan))) >>

-----------------------------------------------------------------------------
(* Projection, main.rs 201-379.  A point closure yields                    *)
(* [panic, stderr, events]: the panic message ("" if none), the warnings   *)
(* printed and the events produced.                                        *)

PointResult(msg, warnings, events) ==
    [ panic |-> msg, stderr |-> warnings, events |-> events ]

\* Mutant: the note off event carries its own tick as ticks_event_start.
NotePairOwnStart(ticks_note_on, ticks_note_off, seconds_note_on, seconds_note_off, channel, key) ==
    << AbsoluteTrackEvent(ticks_note_on, ticks_note_on, seconds_note_on,
           NoteOn(channel, key, MIDI_VELOCITY_DEFAULT)),
       AbsoluteTrackEvent(ticks_note_off, ticks_note_off, seconds_note_off,
           NoteOff(channel, key, MIDI_VELOCITY_NONE)) >>

\* The two events of a note, main.rs 250-277 (and 315-342 for an instant):
\* the note off event carries the tick of its note on event as
\* ticks_event_start.
NotePair(ticks_note_on, ticks_note_off, seconds_note_on, seconds_note_off, channel, key) ==
    << AbsoluteTrackEvent(ticks_note_on, ticks_note_on, seconds_note_on,
           NoteOn(channel, key, MIDI_VELOCITY_DEFAULT)),
       AbsoluteTrackEvent(ticks_note_off, ticks_note_on, seconds_note_off,
           NoteOff(channel, key, MIDI_VELOCITY_NONE)) >>

\* The resolution of a layer's model and dataset (three expects).
ResolveDataset(doc, layer, no_model_message) ==
    LET model == get_model_by_id(doc, layer.model)
    IN  IF ~IsSome(model)
        THEN [ panic |-> no_model_message ]
        ELSE IF ~IsSome(Unwrap(model).dataset)
        THEN [ panic |-> "model doesn't have dataset specified" ]
        ELSE LET dataset == get_dataset_by_id(doc, Unwrap(Unwrap(model).dataset))
             IN  IF ~IsSome(dataset)
                 THEN [ panic |-> "dataset doesn't exist" ]
                 ELSE [ panic |-> "", model |-> Unwrap(model),
                        dataset |-> Unwrap(dataset) ]

\* Mutant: no insufficient-resolution warning for a duration of 0 frames.
NotesPointNonZero(point, channel, notes_layer, model, a) ==
    IF ~IsSome(point.value)
    THEN PointResult("notes layer point has no value specified", << >>, << >>)
    ELSE IF ~IsSome(point.duration)
    THEN PointResult("notes layer point has no duration specified", << >>, << >>)
    ELSE IF ~(model.sample_rate > 0)
    THEN PointResult("assertion failed: sample_rate > 0", << >>, << >>)
    ELSE
    LET key == Unwrap(point.value)
        duration == Unwrap(point.duration)
        seconds_note_on == SecondsNew(point.frame, model.sample_rate)
        seconds_note_off == SecondsNew(point.frame + duration, model.sample_rate)
        ticks_note_on ==
            AsMidiTicks(seconds_note_on, a.midi_bpm, a.midi_ticks_per_beat)
        ticks_note_off ==
            AsMidiTicks(seconds_note_off, a.midi_bpm, a.midi_ticks_per_beat)
    IN  IF ~(ticks_note_on <= ticks_note_off)
        THEN PointResult("assertion failed: ticks_note_on <= ticks_note_off",
                         << >>, << >>)
        ELSE PointResult("",
            (IF duration <= 1
             THEN << Warning("collapsed note", midi_name(notes_layer),
                             seconds_note_on) >>
             ELSE << >>)
            \o (IF ticks_note_on = ticks_note_off /\ duration > 0
                THEN << Warning("insufficient resolution",
                                midi_name(notes_layer), seconds_note_on) >>
                ELSE << >>),
            NotePair(ticks_note_on, ticks_note_off, seconds_note_on,
                     seconds_note_off, channel, U7FromU8(key)))

\* The closure over one point of a notes layer, main.rs 213-278.
NotesPoint(point, channel, notes_layer, model, a) ==
    IF ~IsSome(point.value)
    THEN PointResult("notes layer point has no value specified", << >>, << >>)
    ELSE IF ~IsSome(point.duration)
    THEN PointResult("notes layer point has no duration specified", << >>, << >>)
    ELSE IF ~(model.sample_rate > 0)
    THEN PointResult("assertion failed: sample_rate > 0", << >>, << >>)
    ELSE
    LET key == Unwrap(point.value)
        duration == Unwrap(point.duration)
        seconds_note_on == SecondsNew(point.frame, model.sample_rate)
        seconds_note_off == SecondsNew(point.frame + duration, model.sample_rate)
        ticks_note_on ==
            AsMidiTicks(seconds_note_on, a.midi_bpm, a.midi_ticks_per_beat)
        ticks_note_off ==
            AsMidiTicks(seconds_note_off, a.midi_bpm, a.midi_ticks_per_beat)
    IN  IF ~(ticks_note_on <= ticks_note_off)
        THEN PointResult("assertion failed: ticks_note_on <= ticks_note_off",
                         << >>, << >>)
        ELSE PointResult("",
            (IF duration <= 1
             THEN << Warning("collapsed note", midi_name(notes_layer),
                             seconds_note_on) >>
             ELSE << >>)
            \o (IF ticks_note_on = ticks_note_off
                THEN << Warning("insufficient resolution",
                                midi_name(notes_layer), seconds_note_on) >>
                ELSE << >>),
            NotePair(ticks_note_on, ticks_note_off, seconds_note_on,
                     seconds_note_off, channel, U7FromU8(key)))

\* Mutant: an eighth of a beat instead of a quarter.
InstantLengthEighth(midi_ticks_per_beat) == midi_ticks_per_beat \div 8

\* The length given to an instant: args.midi_ticks_per_beat / 4.
InstantLengthTicks(midi_ticks_per_beat) == midi_ticks_per_beat \div 4

\* The closure over one point of an instants layer, main.rs 297-343.
InstantsPoint(point, key, instants_layer, model, a) ==
    IF ~(model.sample_rate > 0)
    THEN PointResult("assertion failed: sample_rate > 0", << >>, << >>)
    ELSE IF ~(a.midi_ticks_per_beat > 0)
    THEN PointResult("assertion failed: args.midi_ticks_per_beat > 0", << >>, << >>)
    ELSE
    LET seconds_note_on == SecondsNew(point.frame, model.sample_rate)
        length_ticks == InstantLengthTicks(a.midi_ticks_per_beat)
        ticks_note_on ==
            AsMidiTicks(seconds_note_on, a.midi_bpm, a.midi_ticks_per_beat)
        ticks_note_off == ticks_note_on + length_ticks
    IN  IF ~(ticks_note_on <= ticks_note_off)
        THEN PointResult("assertion failed: ticks_note_on <= ticks_note_off",
                         << >>, << >>)
        ELSE PointResult("",
            IF ticks_note_on = ticks_note_off
            THEN << Warning("insufficient resolution",
                            midi_name(instants_layer), seconds_note_on) >>
            ELSE << >>,
            NotePair(ticks_note_on, ticks_note_off, seconds_note_on,
                     seconds_note_on, MIDI_DRUM_CHANNEL % 16, key))

\* The closure over one point of a text layer, main.rs 356-378.
TextPoint(point, text_layer, model, a) ==
    IF ~(model.sample_rate > 0)
    THEN PointResult("assertion failed: sample_rate > 0", << >>, << >>)
    ELSE
    LET seconds_text == SecondsNew(point.frame, model.sample_rate)
        ticks_text == AsMidiTicks(seconds_text, a.midi_bpm, a.midi_ticks_per_beat)
    IN  PointResult("",
            IF ~is_ascii(point.label)
            THEN << Warning("non-ASCII label", midi_name(text_layer),
                            seconds_text) >>
            ELSE << >>,
            << AbsoluteTrackEvent(ticks_text, ticks_text, seconds_text,
                                  MetaText(point.label)) >>)

\* The concatenation of the sequences s[lo], .., s[hi].
RECURSIVE ConcatRange(_, _, _)
ConcatRange(s, lo, hi) ==
    IF lo > hi THEN << >>
    ELSE IF lo = hi THEN s[lo]
    ELSE ConcatRange(s, lo, (lo + hi) \div 2)
         \o ConcatRange(s, (lo + hi) \div 2 + 1, hi)

\* flat_map over the points of a dataset: the results of the closures up to
\* the first one that panics, concatenated.
FlatMapPoints(results) ==
    LET panics == { k \in DOMAIN results : results[k].panic # "" }
        stop == IF panics = {} THEN Len(results) + 1
                ELSE CHOOSE k \in panics : \A j \in panics : k <= j
    IN  PointResult(
            IF panics = {} THEN "" ELSE results[stop].panic,
            ConcatRange([ k \in 1..(stop - 1) |-> results[k].stderr ],
                        1, stop - 1),
            ConcatRange([ k \in 1..(stop - 1) |-> results[k].events ],
                        1, stop - 1))

-----------------------------------------------------------------------------
(* Sorting, main.rs 381-396 *)

BoolRank(b) == IF b THEN 1 ELSE 0

\* Mutant: the two tick components of the key swapped.
SortKeyStartFirst(event) ==
    << event.ticks_event_start, event.ticks,
       BoolRank(~is_note_on(event.kind)), BoolRank(~is_note_off(event.kind)) >>

\* Mutant: the key of the earlier scheme, without ticks_event_start.
SortKeyWithoutStart(event) ==
    << event.ticks,
       BoolRank(~is_note_on(event.kind)), BoolRank(~is_note_off(event.kind)) >>

\* Mutant: the note off events before the note on events of a tick.
SortKeyOffFirst(event) ==
    << event.ticks, event.ticks_event_start,
       BoolRank(~is_note_off(event.kind)), BoolRank(~is_note_on(event.kind)) >>

\* The sort key (ticks, ticks_event_start, !is_note_on, !is_note_off).
SortKey(event) ==
    << event.ticks, event.ticks_event_start,
       BoolRank(~is_note_on(event.kind)), BoolRank(~is_note_off(event.kind)) >>

\* The lexicographic order of tuples: k1 < k2.
KeyLess(k1, k2) ==
    \E i \in 1..Len(k1) :
        /\ k1[i] < k2[i]
        /\ \A j \in 1..(i - 1) : k1[j] = k2[j]

\* sort_by_key is a stable sort: the event at position i comes after the
\* events of smaller key and after the earlier events of the same key.
StableRank(events, i) ==
    Cardinality({ j \in DOMAIN events :
                    \/ KeyLess(SortKey(events[j]), SortKey(events[i]))
                    \/ j < i /\ SortKey(events[j]) = SortKey(events[i]) }) + 1

SortByKey(events) ==
    LET rank == [ i \in DOMAIN events |-> StableRank(events, i) ]
    IN  [ p \in DOMAIN events |->
            events[CHOOSE i \in DOMAIN events : rank[i] = p] ]

-----------------------------------------------------------------------------
(* The overlap lint's HashMap<(u4, u7), usize>, as a function on the keys  *)
(* present.                                                                *)

EmptyMap == [ k \in {} |-> 0 ]

MapInsert(map, key, value) ==
    [ k \in (DOMAIN map) \cup { key } |-> IF k = key THEN value ELSE map[k] ]

MapRemove(map, key) == [ k \in (DOMAIN map) \ { key } |-> map[k] ]

-----------------------------------------------------------------------------
(* Delta encoding, main.rs 459-477 *)

\* Mutant: the first delta time is the first tick even when trimming.
DeltaTimeUntrimmed(events, index, trim_leading_silence) ==
    IF index = 1 THEN events[index].ticks
    ELSE events[index].ticks - events[index - 1].ticks

\* delta_time of the event at event_index (before the conversion to u28).
DeltaTime(events, index, trim_leading_silence) ==
    IF index = 1
    THEN IF trim_leading_silence THEN 0 ELSE events[index].ticks
    ELSE events[index].ticks - events[index - 1].ticks

-----------------------------------------------------------------------------
(* The steps of main() *)

Abort(message) ==
    /\ pc' = "aborted"
    /\ panic' = message

\* main.rs 59-74: the warning about too many notes layers and the zip.
AssignChannels ==
    /\ pc = "start"
    /\ stderr' =
        IF Len(get_layers_by_type(sv_document, "notes")) > 15
        THEN Append(stderr, Warning("too many notes layers", "", None))
        ELSE stderr
    /\ sv_notes_layers' =
        ZipChannels(NOTES_CHANNELS, get_layers_by_type(sv_document, "notes"))
    /\ pc' = "tempo"
    /\ UNCHANGED << args, sv_document, panic, midi_track, absolute_track_events,
                    layer_index, event_index, current_polyphony, already_warned,
                    current_note_counts, output >>

\* main.rs 85-92: the tempo event.
HeaderTempo ==
    /\ pc = "tempo"
    /\ IF ~(args.midi_bpm > 0)
       THEN /\ Abort("assertion failed: args.midi_bpm > 0")
            /\ UNCHANGED << midi_track, layer_index >>
       ELSE /\ midi_track' =
                Append(midi_track, TrackEvent(0, MetaTempo(TempoValue(args.midi_bpm))))
            /\ pc' = "header"
            /\ layer_index' = 1
            /\ UNCHANGED panic
    /\ UNCHANGED << args, sv_document, sv_notes_layers, absolute_track_events,
                    event_index, current_polyphony, already_warned,
                    current_note_counts, stderr, output >>

\* main.rs 94-160: one turn of the loop over the notes layers.
HeaderLayer ==
    /\ pc = "header"
    /\ IF layer_index > Len(sv_notes_layers)
       THEN /\ pc' = "notes"
            /\ layer_index' = 1
            /\ UNCHANGED << panic, midi_track, stderr >>
       ELSE LET channel == sv_notes_layers[layer_index][1]
                notes_layer == sv_notes_layers[layer_index][2]
                play_parameters ==
                    get_play_parameters_by_id(sv_document, notes_layer.model)
            IN  /\ stderr' =
                    IF ~is_ascii(midi_name(notes_layer))
                    THEN Append(stderr, Warning("non-ASCII instrument name",
                                                midi_name(notes_layer), None))
                    ELSE stderr
                /\ IF ~IsSome(play_parameters)
                   THEN /\ Abort("failed to find play parameters")
                        /\ midi_track' =
                            midi_track \o LayerNameEvents(channel, notes_layer)
                        /\ UNCHANGED layer_index
                   ELSE /\ midi_track' =
                            midi_track \o LayerNameEvents(channel, notes_layer)
                            \o LayerSetupEvents(channel, Unwrap(play_parameters))
                        /\ layer_index' = layer_index + 1
                        /\ UNCHANGED << pc, panic >>
    /\ UNCHANGED << args, sv_document, sv_notes_layers, absolute_track_events,
                    event_index, current_polyphony, already_warned,
                    current_note_counts, output >>

\* Mutant: a layer or point that panics is passed over and the run goes on.
ProjectLayerLenient(resolved, results) ==
    /\ layer_index' = layer_index + 1
    /\ UNCHANGED << pc, panic >>
    /\ IF resolved.panic # ""
       THEN UNCHANGED << absolute_track_events, stderr >>
       ELSE LET collected == FlatMapPoints(results)
            IN  /\ absolute_track_events' =
                    absolute_track_events \o collected.events
                /\ stderr' = stderr \o collected.stderr

\* The effect of projecting one layer: `resolved` is the layer's
\* ResolveDataset (extended, for an instants layer, by the play-parameters
\* lookup) and `results` the closure's result for each point.
ProjectLayer(resolved, results) ==
    IF resolved.panic # ""
    THEN /\ Abort(resolved.panic)
         /\ UNCHANGED << absolute_track_events, stderr, layer_index >>
    ELSE LET collected == FlatMapPoints(results)
         IN  /\ absolute_track_events' = absolute_track_events \o collected.events
             /\ stderr' = stderr \o collected.stderr
             /\ IF collected.panic # ""
                THEN /\ Abort(collected.panic)
                     /\ UNCHANGED layer_index
                ELSE /\ layer_index' = layer_index + 1
                     /\ UNCHANGED << pc, panic >>

\* main.rs 203-279: one notes layer.
ProjectNotesLayer ==
    /\ pc = "notes"
    /\ IF layer_index > Len(sv_notes_layers)
       THEN /\ pc' = "instants"
            /\ layer_index' = 1
            /\ UNCHANGED << panic, absolute_track_events, stderr >>
       ELSE LET channel == sv_notes_layers[layer_index][1]
                notes_layer == sv_notes_layers[layer_index][2]
                resolved ==
                    ResolveDataset(sv_document, notes_layer,
                                   "notes layer doesn't have model specified")
            IN  ProjectLayer(resolved,
                    IF resolved.panic # "" THEN << >>
                    ELSE [ k \in DOMAIN resolved.dataset.points |->
                             NotesPoint(resolved.dataset.points[k], channel,
                                        notes_layer, resolved.model, args) ])
    /\ UNCHANGED << args, sv_document, sv_notes_layers, midi_track, event_index,
                    current_polyphony, already_warned, current_note_counts,
                    output >>

\* main.rs 281-344: one instants layer.
ProjectInstantsLayer ==
    /\ pc = "instants"
    /\ LET sv_instants_layers == get_layers_by_type(sv_document, "timeinstants")
       IN  IF layer_index > Len(sv_instants_layers)
           THEN /\ pc' = "text"
                /\ layer_index' = 1
                /\ UNCHANGED << panic, absolute_track_events, stderr >>
           ELSE LET instants_layer == sv_instants_layers[layer_index]
                    dataset ==
                        ResolveDataset(sv_document, instants_layer,
                                       "instants layer doesn't have model specified")
                    play_parameters ==
                        get_play_parameters_by_id(sv_document, instants_layer.model)
                    resolved ==
                        IF dataset.panic = "" /\ ~IsSome(play_parameters)
                        THEN [ panic |-> "failed to find play parameters" ]
                        ELSE dataset
                IN  ProjectLayer(resolved,
                        IF resolved.panic # "" THEN << >>
                        ELSE [ k \in DOMAIN resolved.dataset.points |->
                                 InstantsPoint(resolved.dataset.points[k],
                                     midi_drum_note(Unwrap(play_parameters)),
                                     instants_layer, resolved.model, args) ])
    /\ UNCHANGED << args, sv_document, sv_notes_layers, midi_track, event_index,
                    current_polyphony, already_warned, current_note_counts,
                    output >>

\* main.rs 346-379: one text layer.
ProjectTextLayer ==
    /\ pc = "text"
    /\ LET sv_text_layers == get_layers_by_type(sv_document, "text")
       IN  IF layer_index > Len(sv_text_layers)
           THEN /\ pc' = "sort"
                /\ layer_index' = 1
                /\ UNCHANGED << panic, absolute_track_events, stderr >>
           ELSE LET text_layer == sv_text_layers[layer_index]
                    resolved ==
                        ResolveDataset(sv_document, text_layer,
                                       "text layer doesn't have model specified")
                IN  ProjectLayer(resolved,
                        IF resolved.panic # "" THEN << >>
                        ELSE [ k \in DOMAIN resolved.dataset.points |->
                                 TextPoint(resolved.dataset.points[k], text_layer,
                                           resolved.model, args) ])
    /\ UNCHANGED << args, sv_document, sv_notes_layers, midi_track, event_index,
                    current_polyphony, already_warned, current_note_counts,
                    output >>

\* main.rs 381-400: sort_by_key, then the polyphony lint's initial state.
SortEvents ==
    /\ pc = "sort"
    /\ absolute_track_events' = SortByKey(absolute_track_events)
    /\ pc' = "polyphony"
    /\ event_index' = 1
    /\ current_polyphony' = 0
    /\ already_warned' = FALSE
    /\ UNCHANGED << args, sv_document, panic, sv_notes_layers, midi_track,
                    layer_index, current_note_counts, stderr, output >>

-----------------------------------------------------------------------------
(* Polyphony lint, main.rs 398-421.  The lint's state is                   *)
(* [count, warned]; a step also says whether it printed the warning.       *)

PolyphonyNoteOn(count, warned) ==
    [ count |-> count + 1,
      warn |-> (count + 1 > MIDI_MAX_POLYPHONY) /\ ~warned,
      warned |-> warned \/ (count + 1 > MIDI_MAX_POLYPHONY) ]

\* Mutant: the warning is never re-armed.
PolyphonyNoteOffSticky(count, warned) ==
    [ count |-> count - 1, warn |-> FALSE, warned |-> warned ]

PolyphonyNoteOff(count, warned) ==
    [ count |-> count - 1,
      warn |-> FALSE,
      warned |-> IF (count - 1 <= MIDI_MAX_POLYPHONY) /\ warned
                 THEN FALSE ELSE warned ]

\* One turn of the loop of the polyphony lint.
PolyphonyStep ==
    /\ pc = "polyphony"
    /\ IF event_index > Len(absolute_track_events)
       THEN /\ pc' = "overlap"
            /\ event_index' = 1
            /\ current_note_counts' = EmptyMap
            /\ UNCHANGED << panic, current_polyphony, already_warned, stderr >>
       ELSE LET event == absolute_track_events[event_index]
                after ==
                    IF is_note_on(event.kind)
                    THEN PolyphonyNoteOn(current_polyphony, already_warned)
                    ELSE IF is_note_off(event.kind)
                    THEN PolyphonyNoteOff(current_polyphony, already_warned)
                    ELSE [ count |-> current_polyphony, warn |-> FALSE,
                           warned |-> already_warned ]
            IN  IF is_note_off(event.kind) /\ ~(current_polyphony > 0)
                THEN /\ Abort("assertion failed: current_polyphony > 0")
                     /\ UNCHANGED << event_index, current_polyphony,
                                     already_warned, current_note_counts, stderr >>
                ELSE /\ current_polyphony' = after.count
                     /\ already_warned' = after.warned
                     /\ stderr' =
                         IF after.warn
                         THEN Append(stderr, Warning("excessive polyphony", "",
                                                     event.seconds))
                         ELSE stderr
                     /\ event_index' = event_index + 1
                     /\ UNCHANGED << pc, panic, current_note_counts >>
    /\ UNCHANGED << args, sv_document, sv_notes_layers, midi_track,
                    absolute_track_events, layer_index, output >>

-----------------------------------------------------------------------------
(* Overlap lint, main.rs 423-457 *)

\* entry((channel, key)).or_insert(0), then += 1.
OverlapNoteOn(map, key) ==
    LET note_count == IF key \in DOMAIN map THEN map[key] + 1 ELSE 1
    IN  [ map |-> MapInsert(map, key, note_count), warn |-> note_count >= 2 ]

\* Mutant: an entry that reaches 0 stays in the map.
OverlapNoteOffKeeping(map, key) == MapInsert(map, key, map[key] - 1)

\* get_mut((channel, key)), -= 1, removal at 0.  Called with key present and
\* its count positive.
OverlapNoteOff(map, key) ==
    IF map[key] - 1 = 0 THEN MapRemove(map, key)
    ELSE MapInsert(map, key, map[key] - 1)

\* One turn of the loop of the overlap lint.
OverlapStep ==
    /\ pc = "overlap"
    /\ IF event_index > Len(absolute_track_events)
       THEN /\ pc' = "delta"
            /\ event_index' = 1
            /\ UNCHANGED << panic, current_note_counts, stderr >>
       ELSE LET event == absolute_track_events[event_index]
                kind == event.kind
            IN  IF is_note_on(kind)
                THEN LET after ==
                            OverlapNoteOn(current_note_counts,
                                          << kind.channel, kind.key >>)
                     IN  /\ current_note_counts' = after.map
                         /\ stderr' =
                             IF after.warn
                             THEN Append(stderr, Warning("note overlap", "",
                                                         event.seconds))
                             ELSE stderr
                         /\ event_index' = event_index + 1
                         /\ UNCHANGED << pc, panic >>
                ELSE IF is_note_off(kind)
                THEN IF << kind.channel, kind.key >> \notin DOMAIN current_note_counts
                     THEN /\ Abort("failed to get note count")
                          /\ UNCHANGED << event_index, current_note_counts, stderr >>
                     ELSE IF ~(current_note_counts[<< kind.channel, kind.key >>] > 0)
                     THEN /\ Abort("assertion failed: *note_count > 0")
                          /\ UNCHANGED << event_index, current_note_counts, stderr >>
                     ELSE /\ current_note_counts' =
                              OverlapNoteOff(current_note_counts,
                                             << kind.channel, kind.key >>)
                          /\ event_index' = event_index + 1
                          /\ UNCHANGED << pc, panic, stderr >>
                ELSE /\ event_index' = event_index + 1
                     /\ UNCHANGED << pc, panic, current_note_counts, stderr >>
    /\ UNCHANGED << args, sv_document, sv_notes_layers, midi_track,
                    absolute_track_events, layer_index, current_polyphony,
                    already_warned, output >>

-----------------------------------------------------------------------------
(* Delta encoding and saving, main.rs 459-488 *)

\* One turn of the encoding loop; leaving it pushes the end-of-track event.
DeltaStep ==
    /\ pc = "delta"
    /\ IF event_index > Len(absolute_track_events)
       THEN /\ midi_track' = Append(midi_track, TrackEvent(0, MetaEndOfTrack))
            /\ pc' = "save"
            /\ UNCHANGED << panic, event_index >>
       ELSE IF /\ event_index > 1
               /\ ~(absolute_track_events[event_index - 1].ticks
                        <= absolute_track_events[event_index].ticks)
       THEN /\ Abort("assertion failed: ticks_before <= ticks_current")
            /\ UNCHANGED << midi_track, event_index >>
       ELSE /\ midi_track' =
                Append(midi_track,
                    TrackEvent(
                        U28FromUsize(DeltaTime(absolute_track_events, event_index,
                                               args.trim_leading_silence)),
                        absolute_track_events[event_index].kind))
            /\ event_index' = event_index + 1
            /\ UNCHANGED << pc, panic >>
    /\ UNCHANGED << args, sv_document, sv_notes_layers, absolute_track_events,
                    layer_index, current_polyphony, already_warned,
                    current_note_counts, stderr, output >>

\* midi_document.tracks.push(midi_track); midi_document.save(...)
Save ==
    /\ pc = "save"
    /\ output' = Some([ timing |-> HeaderTiming(args.midi_ticks_per_beat),
                        track |-> midi_track ])
    /\ pc' = "done"
    /\ UNCHANGED << args, sv_document, panic, sv_notes_layers, midi_track,
                    absolute_track_events, layer_index, event_index,
                    current_polyphony, already_warned, current_note_counts,
                    stderr >>

Next ==
    \/ AssignChannels
    \/ HeaderTempo
    \/ HeaderLayer
    \/ ProjectNotesLayer
    \/ ProjectInstantsLayer
    \/ ProjectTextLayer
    \/ SortEvents
    \/ PolyphonyStep
    \/ OverlapStep
    \/ DeltaStep
    \/ Save

-----------------------------------------------------------------------------
(* Inputs.  A run starts from a document and the command-line arguments.   *)
(* The documents are drawn from the families below; each family varies one *)
(* aspect of the input.                                                    *)

\* Bounds of the families.
MaxPoints == 2

MaxNotesLayers == 16

MaxBurst == 2

\* The state main() starts in.
Start(doc, a) ==
    /\ args = a
    /\ sv_document = doc
    /\ pc = "start"
    /\ panic = ""
    /\ sv_notes_layers = << >>
    /\ midi_track = << >>
    /\ absolute_track_events = << >>
    /\ layer_index = 1
    /\ event_index = 1
    /\ current_polyphony = 0
    /\ already_warned = FALSE
    /\ current_note_counts = EmptyMap
    /\ stderr = << >>
    /\ output = None

\* Sequencing: two notes layers (sample rates 2 and 1), an instants layer and
\* a text layer sharing at most MaxPoints points; 1 or 4 ticks per beat.
SeqNotePoints == { NotePoint(f, d, 60) : f \in 0..1, d \in 0..2 }

SeqInstantPoints == { BarePoint(f, "New Point") : f \in 0..2 }

SeqTextPoints ==
    { BarePoint(f, "la") : f \in 0..2 } \cup { BarePoint(1, "caf<u+00E9>") }

InitSequencing ==
    \E ka \in 0..MaxPoints : \E kb \in 0..(MaxPoints - ka) :
    \E kc \in 0..(MaxPoints - ka - kb) : \E kd \in 0..(MaxPoints - ka - kb - kc) :
    \E a \in [ 1..ka -> SeqNotePoints ], b \in [ 1..kb -> SeqNotePoints ],
       c \in [ 1..kc -> SeqInstantPoints ], d \in [ 1..kd -> SeqTextPoints ] :
    \E tpb \in { 1, 4 }, trim \in BOOLEAN :
        Start(BuildDocument(<<
                  LayerDesc("notes", "Lead", 2, "piano", 0, FALSE, a, "none"),
                  LayerDesc("notes", "Bass", 1, "organ", 0, FALSE, b, "none"),
                  LayerDesc("timeinstants", "Drums", 1, "kick", 0, FALSE, c, "none"),
                  LayerDesc("text", "Text", 2, "", 0, FALSE, d, "none") >>),
              MakeArgs(60, tpb, trim))

\* Overlaps: one notes layer whose points differ in value; 188 = 60 + 128.
OverlapNotePoints ==
    { NotePoint(f, d, v) : f \in 0..1, d \in 1..2, v \in { 60, 61, 188 } }

InitOverlap ==
    \E ka \in 0..MaxPoints : \E a \in [ 1..ka -> OverlapNotePoints ] :
        Start(BuildDocument(<<
                  LayerDesc("notes", "Lead", 1, "piano", 0, FALSE, a, "none") >>),
              MakeArgs(60, 1, FALSE))

\* Wide deltas: frames and durations of 2^28 and more, one tick per frame
\* (or two, at 120 beats per minute).
WideNotePoints ==
    { NotePoint(f, d, 60) : f \in { 0, Pow2(28) + 1 }, d \in { 1, Pow2(28) } }

WideTextPoints == { BarePoint(f, "la") : f \in { 3, Pow2(28) } }

InitWide ==
    \E ka \in 0..1, kd \in 0..1 :
    \E a \in [ 1..ka -> WideNotePoints ], d \in [ 1..kd -> WideTextPoints ] :
    \E bpm \in { 60, 120 }, trim \in BOOLEAN :
        Start(BuildDocument(<<
                  LayerDesc("notes", "Lead", 1, "piano", 0, FALSE, a, "none"),
                  LayerDesc("text", "Text", 1, "", 0, FALSE, d, "none") >>),
              MakeArgs(bpm, 1, trim))

\* Channels: up to MaxNotesLayers notes layers of one point each (the point
\* of the i-th notes layer has value 40 + i), alone or between an instants
\* layer and a text layer.
ChannelsNotesLayers(n, mute) ==
    [ i \in 1..n |->
        LayerDesc("notes", "Part", 1, "beep", 0, mute,
                  << NotePoint(i % 2, 1, 40 + i) >>, "none") ]

InitChannels ==
    \E n \in 0..MaxNotesLayers, mute \in BOOLEAN, mixed \in BOOLEAN :
        Start(BuildDocument(
                  (IF mixed
                   THEN << LayerDesc("timeinstants", "Drums", 1, "snare", 0, FALSE,
                                     << BarePoint(0, "New Point") >>, "none") >>
                   ELSE << >>)
                  \o ChannelsNotesLayers(n, mute)
                  \o (IF mixed
                      THEN << LayerDesc("text", "Text", 1, "", 0, FALSE,
                                        << BarePoint(1, "la") >>, "none") >>
                      ELSE << >>)),
              MakeArgs(120, 4, FALSE))

\* Polyphony: `held` notes over ticks [0, 4) and two bursts of at most
\* MaxBurst notes over [1, 2) and [2, 3), all of different values.
PolyphonyPoints(held, first, second) ==
    [ i \in 1..(held + first + second) |->
        IF i <= held THEN NotePoint(0, 4, 10 + i)
        ELSE IF i <= held + first THEN NotePoint(1, 1, 50 + i)
        ELSE NotePoint(2, 1, 60 + i) ]

InitPolyphony ==
    \E held \in (MIDI_MAX_POLYPHONY - 1)..(MIDI_MAX_POLYPHONY + 1) :
    \E first \in 0..MaxBurst, second \in 0..MaxBurst :
        Start(BuildDocument(<<
                  LayerDesc("notes", "Choir", 1, "organ", 0, FALSE,
                            PolyphonyPoints(held, first, second), "none") >>),
              MakeArgs(60, 1, FALSE))

\* Faults: a sound notes layer followed by a notes, an instants and a text
\* layer, one of which lacks a record or a field, or has sample rate 0.
Faults ==
    { "none", "no_model", "no_dataset_id", "no_dataset", "no_play_parameters",
      "no_value", "no_duration", "zero_sample_rate", "zero_sample_rate_no_points" }

FaultyLayer(type, name, clip_id, fault) ==
    LayerDesc(type, name,
              IF fault \in { "zero_sample_rate", "zero_sample_rate_no_points" }
              THEN 0 ELSE 1,
              clip_id, 0, FALSE,
              IF fault = "zero_sample_rate_no_points" THEN << >>
              ELSE IF type = "notes"
              THEN << [ frame |-> 1,
                        value |-> IF fault = "no_value" THEN None ELSE Some(62),
                        duration |-> IF fault = "no_duration" THEN None ELSE Some(2),
                        label |-> "" ] >>
              ELSE << BarePoint(1, "la") >>,
              fault)

InitFaults ==
    \E where \in { "notes", "timeinstants", "text" }, fault \in Faults :
        Start(BuildDocument(<<
                  LayerDesc("notes", "Lead", 1, "piano", 0, TRUE,
                            << NotePoint(0, 1, 60) >>, "none"),
                  FaultyLayer("notes", "Bass", "organ",
                              IF where = "notes" THEN fault ELSE "none"),
                  FaultyLayer("timeinstants", "Drums", "clap",
                              IF where = "timeinstants" THEN fault ELSE "none"),
                  FaultyLayer("text", "Text", "",
                              IF where = "text" THEN fault ELSE "none") >>),
              MakeArgs(120, 1024, FALSE))

\* Pan: two notes layers without points, each with its own pan (hundredths).
PanSet ==
    { -150, -101, -100, -50, -1, 0, 1, 50, 99, 100, 101, 102, 150, 200, 301, 400 }

InitPan ==
    \E pan1 \in PanSet, pan2 \in PanSet :
        Start(BuildDocument(<<
                  LayerDesc("notes", "Lead", 1, "elecpiano", pan1, FALSE, << >>,
                            "none"),
                  LayerDesc("notes", "Fl<u+00FB>te", 1, "flute", pan2, FALSE, << >>,
                            "none") >>),
              MakeArgs(120, 1024, FALSE))

\* Tempo: one notes layer of one note, at whole numbers of beats per minute
\* that divide 60 000 000 or not, down to tempi of more than 2^24 - 1
\* microseconds per beat.
TempoSet == { 1, 3, 4, 7, 45, 60, 120, 999 }

InitTempo ==
    \E bpm \in TempoSet, tpb \in { 1, 1024 } :
        Start(BuildDocument(<<
                  LayerDesc("notes", "Lead", 1, "piano", 0, FALSE,
                            << NotePoint(60, 60, 60) >>, "none") >>),
              MakeArgs(bpm, tpb, FALSE))

Init ==
    \/ InitTempo
    \/ InitSequencing
    \/ InitOverlap
    \/ InitWide
    \/ InitChannels
    \/ InitPolyphony
    \/ InitFaults
    \/ InitPan

Spec == Init /\ [][Next]_vars

-----------------------------------------------------------------------------
(* Properties *)

\* The event list is in projection order.
Projecting == pc \in { "notes", "instants", "text", "sort" }

\* The event list has been sorted.
Sequenced == pc \in { "polyphony", "overlap", "delta", "save", "done" }

\* The notes layers have just been projected, and nothing else.
NotesProjected == pc = "instants" /\ layer_index = 1

\* The sum of s[lo], .., s[hi].
RECURSIVE SumRange(_, _, _)
SumRange(s, lo, hi) ==
    IF lo > hi THEN 0
    ELSE IF lo = hi THEN s[lo]
    ELSE SumRange(s, lo, (lo + hi) \div 2) + SumRange(s, (lo + hi) \div 2 + 1, hi)

SumSeq(s) == SumRange(s, 1, Len(s))

\* The number of points of the notes layers that were given a channel.
AssignedNotesPoints ==
    SumSeq([ i \in DOMAIN sv_notes_layers |->
               Len(ResolveDataset(sv_document, sv_notes_layers[i][2], "none")
                       .dataset.points) ])

\* C1: once sorted, the event list is non-decreasing in tick, every
\* non-initial delta time is >= 0, and the assertion ticks_before <=
\* ticks_current of the encoder never fails.
C1_SequencedNonDecreasing ==
    /\ panic # "assertion failed: ticks_before <= ticks_current"
    /\ Sequenced =>
         \A i \in 2..Len(absolute_track_events) :
            /\ absolute_track_events[i - 1].ticks <= absolute_track_events[i].ticks
            /\ DeltaTime(absolute_track_events, i, args.trim_leading_silence) >= 0

\* A finished run whose sorted list has a text event before a later note on
\* event: the sort moved it ahead of an event projected before it.
C1_Witness ==
    /\ pc = "done"
    /\ \E i, j \in DOMAIN absolute_track_events :
          /\ i < j
          /\ absolute_track_events[i].kind.type = "Text"
          /\ is_note_on(absolute_track_events[j].kind)
          /\ absolute_track_events[i].ticks < absolute_track_events[j].ticks

\* Event i is the note off of a note ending where the note of the note on
\* event j starts, on another channel.
EndsWhereStarts(i, j) ==
    /\ is_note_off(absolute_track_events[i].kind)
    /\ is_note_on(absolute_track_events[j].kind)
    /\ absolute_track_events[i].ticks = absolute_track_events[j].ticks
    /\ absolute_track_events[i].kind.channel # absolute_track_events[j].kind.channel

\* C2 as stated: a note ending at tick T is closed before a note on another
\* channel starting at T is opened, whatever the start tick (<= T) of the
\* ending note.
C2_Original ==
    Sequenced =>
        \A i, j \in DOMAIN absolute_track_events : EndsWhereStarts(i, j) => i < j

\* C2 amended: a note that starts before tick T and ends at T is closed
\* before a note on another channel starting at T is opened.
C2_ClosedBeforeOpened ==
    Sequenced =>
        \A i, j \in DOMAIN absolute_track_events :
            ( /\ EndsWhereStarts(i, j)
              /\ absolute_track_events[i].ticks_event_start
                     < absolute_track_events[i].ticks )
            => i < j

\* A finished run with a note of positive length ending where a note on
\* another channel starts.
C2_Witness ==
    /\ pc = "done"
    /\ \E i, j \in DOMAIN absolute_track_events :
          /\ EndsWhereStarts(i, j)
          /\ absolute_track_events[i].ticks_event_start
                 < absolute_track_events[i].ticks

\* C3: a notes-layer point yields a note on event followed by its note off
\* event with tick(on) <= tick(off), both carrying the note on's tick as
\* ticks_event_start; the assertion ticks_note_on <= ticks_note_off never
\* fails; every point of an assigned notes layer yields its pair.
C3_NoteOnNotAfterNoteOff ==
    /\ panic # "assertion failed: ticks_note_on <= ticks_note_off"
    /\ Projecting =>
         \A k \in DOMAIN absolute_track_events :
            ( /\ is_note_on(absolute_track_events[k].kind)
              /\ absolute_track_events[k].kind.channel # MIDI_DRUM_CHANNEL )
            => /\ k + 1 \in DOMAIN absolute_track_events
               /\ is_note_off(absolute_track_events[k + 1].kind)
               /\ absolute_track_events[k + 1].kind.channel
                      = absolute_track_events[k].kind.channel
               /\ absolute_track_events[k + 1].kind.key
                      = absolute_track_events[k].kind.key
               /\ absolute_track_events[k].ticks <= absolute_track_events[k + 1].ticks
               /\ absolute_track_events[k].ticks_event_start
                      = absolute_track_events[k].ticks
               /\ absolute_track_events[k + 1].ticks_event_start
                      = absolute_track_events[k].ticks
    /\ NotesProjected => Len(absolute_track_events) = 2 * AssignedNotesPoints

\* The notes layers are projected and hold a note that starts after tick 0
\* and has positive length, and a note whose two ticks are equal.
C3_Witness ==
    /\ NotesProjected
    /\ \E k, m \in DOMAIN absolute_track_events :
          /\ is_note_on(absolute_track_events[k].kind)
          /\ 0 < absolute_track_events[k].ticks
          /\ absolute_track_events[k].ticks < absolute_track_events[k + 1].ticks
          /\ is_note_on(absolute_track_events[m].kind)
          /\ absolute_track_events[m].ticks = absolute_track_events[m + 1].ticks

\* The saved track, and the number of header events before its body.
SavedTrack == Unwrap(output).track

HeaderLength == Len(SavedTrack) - Len(absolute_track_events) - 1

\* The sum of the first i body deltas of the saved track.
Accumulated(i) == SumSeq([ j \in 1..i |-> SavedTrack[HeaderLength + j].delta ])

\* The tick the body is relative to: the first tick when trimming, else 0.
TrimBase ==
    IF args.trim_leading_silence /\ absolute_track_events # << >>
    THEN absolute_track_events[1].ticks
    ELSE 0

\* The difference the i-th delta encodes.
TickStep(i) ==
    IF i = 1 THEN absolute_track_events[1].ticks - TrimBase
    ELSE absolute_track_events[i].ticks - absolute_track_events[i - 1].ticks

\* C4 as stated: re-accumulating the body deltas gives back every absolute
\* tick, except that with trimming the first one is replaced by 0.
C4_Original ==
    pc = "done" =>
        \A i \in DOMAIN absolute_track_events :
            Accumulated(i) =
                IF args.trim_leading_silence /\ i = 1 THEN 0
                ELSE absolute_track_events[i].ticks

\* C4 amended: re-accumulating the body deltas gives back every tick minus
\* the base (0 without trimming, the first event's tick with trimming):
\* always modulo 2^28, the width of a delta, and exactly up to any event
\* before which every difference is below 2^28.
C4_RoundTrip ==
    pc = "done" =>
        \A i \in DOMAIN absolute_track_events :
            /\ (Accumulated(i) - (absolute_track_events[i].ticks - TrimBase))
                   % Pow2(28) = 0
            /\ (\A j \in 1..i : TickStep(j) < Pow2(28))
                   => Accumulated(i) = absolute_track_events[i].ticks - TrimBase

\* A finished run with trimming whose first event is after tick 0 and is
\* followed by another event at a later tick.
C4_Witness ==
    /\ pc = "done"
    /\ args.trim_leading_silence
    /\ Len(absolute_track_events) >= 2
    /\ 0 < absolute_track_events[1].ticks
    /\ absolute_track_events[1].ticks
           < absolute_track_events[Len(absolute_track_events)].ticks
    /\ \A j \in DOMAIN absolute_track_events : TickStep(j) < Pow2(28)

\* The notes layers of the document, in document order.
DocumentNotesLayers == get_layers_by_type(sv_document, "notes")

\* The i-th of the channel numbers 0..8, 10..15.
ExpectedChannel(i) == IF i <= 9 THEN i - 1 ELSE i

MinOf(a, b) == IF a < b THEN a ELSE b

\* The number of warnings of a kind printed so far.
WarningCount(kind) ==
    Cardinality({ i \in DOMAIN stderr : stderr[i].kind = kind })

\* The channels announced by the channel meta events of the track, in order.
AnnouncedChannels ==
    LET IsChannel(event) == event.kind.type = "MidiChannel"
        announced == SelectSeq(midi_track, IsChannel)
    IN  [ i \in DOMAIN announced |-> announced[i].kind.channel ]

\* The points of a layer whose model and dataset exist.
LayerPoints(layer) == ResolveDataset(sv_document, layer, "none").dataset.points

\* C5: the first min(n, 15) notes layers get, in document order, the
\* channels 0..8, 10..15 (distinct, never 9); the layers beyond the 15th get
\* no header events and no note events; the warning about too many notes
\* layers is printed once when n > 15 and not at all otherwise.
C5_ChannelAssignment ==
    LET n == Len(DocumentNotesLayers)
        m == MinOf(n, 15)
    IN  /\ pc # "start" =>
            /\ Len(sv_notes_layers) = m
            /\ \A i \in 1..m :
                  /\ sv_notes_layers[i] = << ExpectedChannel(i), DocumentNotesLayers[i] >>
                  /\ sv_notes_layers[i][1] \in (0..15) \ { 9 }
            /\ \A i, j \in 1..m :
                  i # j => sv_notes_layers[i][1] # sv_notes_layers[j][1]
            /\ WarningCount("too many notes layers") = IF n > 15 THEN 1 ELSE 0
        /\ pc = "done" =>
            /\ AnnouncedChannels = [ i \in 1..m |-> ExpectedChannel(i) ]
            /\ Cardinality({ k \in DOMAIN absolute_track_events :
                               /\ is_note_on(absolute_track_events[k].kind)
                               /\ absolute_track_events[k].kind.channel # 9 })
                   = AssignedNotesPoints
            /\ \A k \in DOMAIN absolute_track_events :
                  ( /\ absolute_track_events[k].kind.type \in { "NoteOn", "NoteOff" }
                    /\ absolute_track_events[k].kind.channel # 9 )
                  => \E i \in 1..m :
                        /\ absolute_track_events[k].kind.channel = ExpectedChannel(i)
                        /\ \E q \in DOMAIN LayerPoints(DocumentNotesLayers[i]) :
                              absolute_track_events[k].kind.key
                                  = U7FromU8(Unwrap(
                                        LayerPoints(DocumentNotesLayers[i])[q].value))

\* A finished run of a document with more than 15 notes layers, the last of
\* which has a point.
C5_Witness ==
    /\ pc = "done"
    /\ Len(DocumentNotesLayers) > 15
    /\ LayerPoints(DocumentNotesLayers[Len(DocumentNotesLayers)]) # << >>

\* The instants layers have just been projected, and no text layer yet.
InstantsProjected == pc = "text" /\ layer_index = 1

\* Event k is the note on event of an instant.
IsInstantNoteOn(k) ==
    /\ is_note_on(absolute_track_events[k].kind)
    /\ absolute_track_events[k].kind.channel = MIDI_DRUM_CHANNEL

\* The number of points of the instants layers.
InstantsPoints ==
    LET layers == get_layers_by_type(sv_document, "timeinstants")
    IN  SumSeq([ i \in DOMAIN layers |-> Len(LayerPoints(layers[i])) ])

\* The number of warnings of a kind printed for instants layers.
InstantsWarningCount(kind) ==
    LET layers == get_layers_by_type(sv_document, "timeinstants")
    IN  Cardinality({ i \in DOMAIN stderr :
                        /\ stderr[i].kind = kind
                        /\ \E l \in DOMAIN layers : stderr[i].layer = midi_name(layers[l]) })

\* C6 as stated: every instant yields a note on / note off pair on channel 9
\* of strictly positive length, whatever the ticks per beat.
C6_Original ==
    Projecting =>
        \A k \in DOMAIN absolute_track_events :
            IsInstantNoteOn(k) =>
                absolute_track_events[k + 1].ticks - absolute_track_events[k].ticks > 0

\* C6 amended: every instant yields a note on / note off pair on channel 9
\* whose length is the integer quotient ticks_per_beat / 4: positive exactly
\* when ticks_per_beat >= 4, and zero, with an insufficient-resolution
\* warning per instant, when ticks_per_beat < 4.
C6_InstantLength ==
    /\ Projecting =>
         \A k \in DOMAIN absolute_track_events :
            IsInstantNoteOn(k) =>
               /\ k + 1 \in DOMAIN absolute_track_events
               /\ is_note_off(absolute_track_events[k + 1].kind)
               /\ absolute_track_events[k + 1].kind.channel = MIDI_DRUM_CHANNEL
               /\ absolute_track_events[k + 1].kind.key
                      = absolute_track_events[k].kind.key
               /\ absolute_track_events[k + 1].ticks - absolute_track_events[k].ticks
                      = args.midi_ticks_per_beat \div 4
               /\ (args.midi_ticks_per_beat >= 4) <=>
                      (absolute_track_events[k + 1].ticks
                           > absolute_track_events[k].ticks)
    /\ InstantsProjected =>
         /\ Cardinality({ k \in DOMAIN absolute_track_events : IsInstantNoteOn(k) })
                = InstantsPoints
         /\ InstantsWarningCount("insufficient resolution")
                = IF args.midi_ticks_per_beat < 4 THEN InstantsPoints ELSE 0

\* The instants layers are projected, at 4 ticks per beat or more, and hold
\* an instant.
C6_Witness ==
    /\ InstantsProjected
    /\ args.midi_ticks_per_beat >= 4
    /\ \E k \in DOMAIN absolute_track_events : IsInstantNoteOn(k)

\* The layers main() reads: the notes layers given a channel, the instants
\* layers and the text layers.
UsedLayers ==
    { sv_document.layers[i] : i \in
        { j \in DOMAIN sv_document.layers :
            \/ sv_document.layers[j].type \in { "timeinstants", "text" }
            \/ \E k \in 1..MinOf(15, Len(DocumentNotesLayers)) :
                  DocumentNotesLayers[k] = sv_document.layers[j] } }

\* A record the layer needs is missing, one of its points lacks a field the
\* layer's projection needs, or a point has to be converted at a sample rate
\* that is not positive.
LayerIsFatal(layer) ==
    LET model == get_model_by_id(sv_document, layer.model)
    IN  \/ ~IsSome(model)
        \/ ~IsSome(Unwrap(model).dataset)
        \/ ~IsSome(get_dataset_by_id(sv_document, Unwrap(Unwrap(model).dataset)))
        \/ /\ layer.type \in { "notes", "timeinstants" }
           /\ ~IsSome(get_play_parameters_by_id(sv_document, layer.model))
        \/ \E q \in DOMAIN LayerPoints(layer) :
              \/ ~(Unwrap(model).sample_rate > 0)
              \/ /\ layer.type = "notes"
                 /\ \/ ~IsSome(LayerPoints(layer)[q].value)
                    \/ ~IsSome(LayerPoints(layer)[q].duration)

FatalCondition ==
    \/ ~(args.midi_bpm > 0)
    \/ \E layer \in UsedLayers : LayerIsFatal(layer)

\* The fatal conditions as stated: as above, or the sample rate of a used
\* layer's model is not positive.
FatalConditionAsStated ==
    \/ FatalCondition
    \/ \E layer \in UsedLayers :
          /\ IsSome(get_model_by_id(sv_document, layer.model))
          /\ ~(Unwrap(get_model_by_id(sv_document, layer.model)).sample_rate > 0)

OpenCount(k) ==
    Cardinality({ i \in 1..k : is_note_on(absolute_track_events[i].kind) })
    - Cardinality({ i \in 1..k : is_note_off(absolute_track_events[i].kind) })

\* The number of events the polyphony lint has scanned.
PolyphonyScanned ==
    IF pc = "polyphony" THEN event_index - 1 ELSE Len(absolute_track_events)

\* C8: during and after the polyphony scan the running count is the number
\* of open notes, a warning has been printed exactly for every note on event
\* that raised the count from at most 24 to above 24, and the warning is
\* disarmed exactly while the count is above 24.
C8_EdgeTriggered ==
    Sequenced =>
        /\ current_polyphony = OpenCount(PolyphonyScanned)
        /\ already_warned = (OpenCount(PolyphonyScanned) > MIDI_MAX_POLYPHONY)
        /\ WarningCount("excessive polyphony") =
              Cardinality({ i \in 1..PolyphonyScanned :
                              /\ is_note_on(absolute_track_events[i].kind)
                              /\ OpenCount(i - 1) <= 24
                              /\ OpenCount(i) > 24 })

\* A finished run where the count rose above 24 twice and, in between, went
\* on rising while above 24.
C8_Witness ==
    /\ pc = "done"
    /\ WarningCount("excessive polyphony") = 2
    /\ \E i \in DOMAIN absolute_track_events :
          /\ is_note_on(absolute_track_events[i].kind)
          /\ OpenCount(i) > 25

\* The (channel, key) of a note event.
NoteKey(event) == << event.kind.channel, event.kind.key >>

\* The number of notes of a (channel, key) open after the first k events.
OpenNotes(k, key) ==
    Cardinality({ i \in 1..k : /\ is_note_on(absolute_track_events[i].kind)
                               /\ NoteKey(absolute_track_events[i]) = key })
    - Cardinality({ i \in 1..k : /\ is_note_off(absolute_track_events[i].kind)
                                 /\ NoteKey(absolute_track_events[i]) = key })

\* The (channel, key) pairs of the note events of the list.
NoteKeys ==
    { NoteKey(absolute_track_events[i]) :
        i \in { j \in DOMAIN absolute_track_events :
                  absolute_track_events[j].kind.type \in { "NoteOn", "NoteOff" } } }

\* The number of events the overlap lint has scanned.
OverlapScanned ==
    IF pc = "overlap" THEN event_index - 1 ELSE Len(absolute_track_events)

\* C9: during and after the overlap scan the map holds exactly the
\* (channel, key) pairs with open notes, each with its number of open notes
\* (at least 1); a warning has been printed exactly for every note on event
\* that raised the count of its pair to 2 or more; and every note on event,
\* warned about or not, is in the saved track.
C9_OverlapCounts ==
    /\ pc \in { "overlap", "delta", "save", "done" } =>
         /\ DOMAIN current_note_counts =
               { key \in NoteKeys : OpenNotes(OverlapScanned, key) > 0 }
         /\ \A key \in DOMAIN current_note_counts :
               /\ current_note_counts[key] = OpenNotes(OverlapScanned, key)
               /\ current_note_counts[key] >= 1
         /\ WarningCount("note overlap") =
               Cardinality({ i \in 1..OverlapScanned :
                   /\ is_note_on(absolute_track_events[i].kind)
                   /\ OpenNotes(i, NoteKey(absolute_track_events[i])) >= 2 })
    /\ pc = "done" =>
         /\ \A i \in DOMAIN absolute_track_events :
               SavedTrack[HeaderLength + i].kind = absolute_track_events[i].kind
         /\ Cardinality({ i \in DOMAIN SavedTrack : is_note_on(SavedTrack[i].kind) })
               = AssignedNotesPoints + InstantsPoints

\* A finished run with a note overlap warning, the map having held a count
\* of 2.
C9_Witness ==
    /\ pc = "done"
    /\ WarningCount("note overlap") >= 1
    /\ \E i \in DOMAIN absolute_track_events :
          /\ is_note_on(absolute_track_events[i].kind)
          /\ OpenNotes(i, NoteKey(absolute_track_events[i])) = 2
    /\ \E i \in DOMAIN absolute_track_events :
          /\ is_note_off(absolute_track_events[i].kind)
          /\ OpenNotes(i, NoteKey(absolute_track_events[i])) = 0

\* The header has just been completed.
HeaderCompleted == pc = "notes" /\ layer_index = 1

\* The pan (in hundredths) of the i-th notes layer given a channel.
LayerPan(i) ==
    Unwrap(get_play_parameters_by_id(sv_document, sv_notes_layers[i][2].model)).pan

\* The value of the pan controller event of the i-th notes layer.
EmittedPan(i) ==
    LET at == CHOOSE k \in DOMAIN midi_track :
                 /\ midi_track[k].kind.type = "Controller"
                 /\ midi_track[k].kind.controller = MIDI_CONTROLLER_PAN
                 /\ midi_track[k].kind.channel = sv_notes_layers[i][1]
    IN  midi_track[at].kind.value

\* num / den rounded to the nearest integer, halves away from zero.
RoundDiv(num, den) ==
    IF num >= 0 THEN (2 * num + den) \div (2 * den)
    ELSE 0 - ((den - 2 * num) \div (2 * den))

\* x brought into 0..127.
IntoControllerRange(x) == IF x < 0 THEN 0 ELSE IF x > 127 THEN 127 ELSE x

\* C10 as stated: the pan controller value of every note channel is
\* round(64 + pan * 63.5) brought into 0..127, so that it lies in 0..127 and
\* never decreases as pan increases.
C10_Original ==
    HeaderCompleted =>
        /\ \A i \in DOMAIN sv_notes_layers :
              /\ EmittedPan(i) \in 0..127
              /\ EmittedPan(i) =
                     IntoControllerRange(RoundDiv(64000 + 635 * LayerPan(i), 1000))
        /\ \A i, j \in DOMAIN sv_notes_layers :
              LayerPan(i) <= LayerPan(j) => EmittedPan(i) <= EmittedPan(j)

\* The tempo event has been pushed.
TempoPushed == pc \notin { "start", "tempo", "aborted" } \/ (pc = "aborted" /\ midi_track # << >>)

\* C11 as stated: the tempo event carries 60 000 000 / bpm rounded to the
\* nearest integer, and that value fits the 24-bit tempo field.
C11_Original ==
    TempoPushed =>
        /\ midi_track[1].kind = MetaTempo(RoundDiv(60000000, args.midi_bpm))
        /\ RoundDiv(60000000, args.midi_bpm) < Pow2(24)

\* The notes layers have been projected and the run has not aborted.
AfterNotes ==
    \/ pc = "instants"
    \/ pc \in { "text", "sort", "polyphony", "overlap", "delta", "save", "done" }

\* The model of the i-th notes layer given a channel.
NotesModel(i) == Unwrap(get_model_by_id(sv_document, sv_notes_layers[i][2].model))

\* The points (layer i, point q) of the notes layers given a channel.
NotesPointIds ==
    UNION { { << i, q >> : q \in DOMAIN LayerPoints(sv_notes_layers[i][2]) } :
              i \in DOMAIN sv_notes_layers }

PointOf(id) == LayerPoints(sv_notes_layers[id[1]][2])[id[2]]

\* The seconds a point starts at.
PointSeconds(id) == SecondsNew(PointOf(id).frame, NotesModel(id[1]).sample_rate)

\* The on tick and the off tick of a point are equal.
PointCollapses(id) ==
    AsMidiTicks(PointSeconds(id), args.midi_bpm, args.midi_ticks_per_beat)
    = AsMidiTicks(SecondsNew(PointOf(id).frame + Unwrap(PointOf(id).duration),
                             NotesModel(id[1]).sample_rate),
                  args.midi_bpm, args.midi_ticks_per_beat)

\* The number of insufficient-resolution warnings printed for a layer name
\* at a position.
ResolutionWarnings(name, seconds) ==
    Cardinality({ k \in DOMAIN stderr :
                    stderr[k] = Warning("insufficient resolution", name, seconds) })

\* The name of the layer of a point and the position the point starts at.
PointPlace(id) == << midi_name(sv_notes_layers[id[1]][2]), PointSeconds(id) >>

\* C12 as stated: a notes-layer point gets the insufficient-resolution
\* warning exactly when its duration is not zero and its on tick and off
\* tick are equal; never when its duration is zero frames.
C12_Original ==
    NotesProjected =>
        LET ids == NotesPointIds
        IN  \A place \in { PointPlace(id) : id \in ids } :
                ResolutionWarnings(place[1], place[2])
                = Cardinality({ id \in ids :
                                  /\ PointPlace(id) = place
                                  /\ Unwrap(PointOf(id).duration) > 0
                                  /\ PointCollapses(id) })

\* C12 amended: a notes-layer point gets the insufficient-resolution warning
\* exactly when its on tick and its off tick are equal: always when its
\* duration is zero frames, and for a longer point exactly when the
\* duration collapses to zero ticks.
C12_ResolutionWarning ==
    NotesProjected =>
        LET ids == NotesPointIds
            places == { PointPlace(id) : id \in ids }
        IN  /\ \A place \in places :
                  ResolutionWarnings(place[1], place[2])
                  = Cardinality({ id \in ids :
                                    PointPlace(id) = place /\ PointCollapses(id) })
            /\ \A id \in ids :
                  Unwrap(PointOf(id).duration) = 0 => PointCollapses(id)
            /\ \A k \in DOMAIN stderr :
                  stderr[k].kind = "insufficient resolution"
                  => << stderr[k].layer, stderr[k].seconds >> \in places

\* A run that projected a point of zero frames and a longer point that
\* collapses to zero ticks, and printed the warning for both.
C12_Witness ==
    /\ NotesProjected
    /\ \E id \in NotesPointIds : Unwrap(PointOf(id).duration) = 0
    /\ \E id \in NotesPointIds :
          Unwrap(PointOf(id).duration) > 0 /\ PointCollapses(id)
    /\ WarningCount("insufficient resolution") >= 2

\* The note events of the channel of the i-th notes layer given a channel.
ChannelNoteEvents(i) ==
    { k \in DOMAIN absolute_track_events :
        /\ absolute_track_events[k].kind.type \in { "NoteOn", "NoteOff" }
        /\ absolute_track_events[k].kind.channel = sv_notes_layers[i][1] }

\* C13 as stated: the note on and the note off event of every notes-layer
\* point carry the point's value as their key, so that points of different
\* values of a layer never share a key.
C13_Original ==
    AfterNotes =>
        /\ \A id \in NotesPointIds :
              \E k, l \in ChannelNoteEvents(id[1]) :
                 /\ is_note_on(absolute_track_events[k].kind)
                 /\ is_note_off(absolute_track_events[l].kind)
                 /\ absolute_track_events[k].kind.key = Unwrap(PointOf(id).value)
                 /\ absolute_track_events[l].kind.key = Unwrap(PointOf(id).value)
        /\ \A i \in DOMAIN sv_notes_layers :
              Cardinality({ absolute_track_events[k].kind.key :
                              k \in ChannelNoteEvents(i) })
              = Cardinality({ Unwrap(PointOf(id).value) :
                                id \in { other \in NotesPointIds : other[1] = i } })

\* The validation lints never panic.
LintsPass ==
    panic \notin { "assertion failed: current_polyphony > 0",
                   "failed to get note count",
                   "assertion failed: *note_count > 0" }

\* The step that sorts the event list.
SortStep == pc = "sort" /\ pc' = "polyphony"

\* Every note on event of the unsorted list is followed by its note off
\* event; sorting keeps the first before the second.
PairsStayOrdered ==
    \A k \in DOMAIN absolute_track_events :
        is_note_on(absolute_track_events[k].kind) =>
            /\ k + 1 \in DOMAIN absolute_track_events
            /\ is_note_off(absolute_track_events[k + 1].kind)
            /\ NoteKey(absolute_track_events[k + 1]) = NoteKey(absolute_track_events[k])
            /\ StableRank(absolute_track_events, k)
                   < StableRank(absolute_track_events, k + 1)
            /\ absolute_track_events'[StableRank(absolute_track_events, k)]
                   = absolute_track_events[k]
            /\ absolute_track_events'[StableRank(absolute_track_events, k + 1)]
                   = absolute_track_events[k + 1]

\* In the sorted list no prefix has more note off than note on events, of
\* any (channel, key); the lints end with count 0 and an empty map.
ScansStayOpen ==
    /\ LintsPass
    /\ Sequenced =>
         /\ \A k \in DOMAIN absolute_track_events :
               /\ OpenCount(k) >= 0
               /\ is_note_off(absolute_track_events[k].kind) =>
                     OpenNotes(k - 1, NoteKey(absolute_track_events[k])) >= 1
         /\ OpenCount(Len(absolute_track_events)) = 0
    /\ pc \in { "overlap", "delta", "save", "done" } => current_polyphony = 0
    /\ pc \in { "delta", "save", "done" } => current_note_counts = EmptyMap

\* C14: the sort puts every note off event after its own note on event;
\* the lints never reach their fatal checks (the polyphony count is never
\* decremented at 0 and a note off event always finds an entry of its
\* (channel, key)); after the last event the count is 0 and the map empty.
C14_NoteOffAfterNoteOn == [](ScansStayOpen) /\ [][SortStep => PairsStayOrdered]_vars

\* A finished run of a list with a zero-length note whose tick another note
\* event shares.
C14_Witness ==
    /\ pc = "done"
    /\ \E k \in DOMAIN absolute_track_events :
          /\ is_note_on(absolute_track_events[k].kind)
          /\ \E l \in DOMAIN absolute_track_events :
                /\ l > k
                /\ is_note_off(absolute_track_events[l].kind)
                /\ NoteKey(absolute_track_events[l]) = NoteKey(absolute_track_events[k])
                /\ absolute_track_events[l].ticks = absolute_track_events[k].ticks
          /\ \E m \in DOMAIN absolute_track_events :
                /\ absolute_track_events[m].ticks = absolute_track_events[k].ticks
                /\ absolute_track_events[m].kind.type \in { "NoteOn", "NoteOff" }
                /\ NoteKey(absolute_track_events[m]) # NoteKey(absolute_track_events[k])

====
